---- MODULE Spec2Model ----
(***************************************************************************)
(* People search of GraphClient (src/Graph/src/graphClient.ts, the         *)
(* filter-based iteration at lines 360-607): getUserBySkills extracts      *)
(* filters from the query, builds the fielded search queries, runs one     *)
(* runSearchFor per query concurrently and merges the result sets with     *)
(* combineResults.  The two skills-only classes of the same file (lines    *)
(* 16-187 and 204-343) are modelled as far as their search differs:        *)
(* extractSkills, the queries of getUserBySkills, combineResults.          *)
(*                                                                         *)
(* A JavaScript string is a sequence of symbols.  A symbol is one          *)
(* character (" ", ":", "(", "'", ...) or a run of plain letters that no   *)
(* operation of the program splits ("Leadership", "a@x.com").  LoneSurr    *)
(* is an unpaired UTF-16 surrogate code unit.                              *)
(***************************************************************************)
EXTENDS Integers, Sequences, FiniteSets, TLC

\* ------------------------------------------------------------------------
\* Bounds of the model
\* ------------------------------------------------------------------------

\* Longest skills array of a model reply.
MaxSkills == 2

\* Most records over all the result sets handed to combineResults in the
\* specifications of the merge.
MaxRecs == 3

\* Most cells of a row of the search backend in the specification of the
\* row mapping.
MaxCells == 3

\* ------------------------------------------------------------------------
\* JavaScript values
\* ------------------------------------------------------------------------

\* The value undefined, where a string is expected.
undefined == <<"#undefined">>

\* The value undefined, where an array of strings is expected.
undefinedArr == <<undefined>>

\* An unpaired surrogate code unit, e.g. "\uD800".
LoneSurr == "#D800"

\* ToBoolean of a string or undefined: undefined and '' are falsy.
Truthy(v) == v # undefined /\ v # <<>>

\* The characters \s matches and String.prototype.trim strips.
WhiteSpace == {" ", "\n", "\t"}

RECURSIVE trimStart(_)
trimStart(s) ==
    IF s # <<>> /\ Head(s) \in WhiteSpace THEN trimStart(Tail(s)) ELSE s

RECURSIVE trimEnd(_)
trimEnd(s) ==
    IF s # <<>> /\ s[Len(s)] \in WhiteSpace
    THEN trimEnd(SubSeq(s, 1, Len(s) - 1))
    ELSE s

\* String.prototype.trim
trim(s) == trimEnd(trimStart(s))

\* String.prototype.toLowerCase, symbol by symbol.
LowerSym(c) ==
    CASE c = "A@X.COM" -> "a@x.com"
      [] c = "Ann" -> "ann"
      [] c = "Leadership" -> "leadership"
      [] c = "Department" -> "department"
      [] c = "Dept" -> "dept"
      [] c = "Office" -> "office"
      [] c = "OfficeNumber" -> "officenumber"
      [] c = "officeNumber" -> "officenumber"
      [] c = "Location" -> "location"
      [] OTHER -> c

toLowerCase(s) == [i \in 1..Len(s) |-> LowerSym(s[i])]

\* arr.filter(Boolean) on an array of strings
FilterBoolean(arr) == SelectSeq(arr, LAMBDA s : s # <<>>)

\* arr.map(s => s.trim())
MapTrim(arr) == [i \in 1..Len(arr) |-> trim(arr[i])]

\* Array.from(new Set(arr)): the first occurrence of every value, in order.
RECURSIVE ArrayFromSet(_)
ArrayFromSet(arr) ==
    IF arr = <<>> THEN <<>>
    ELSE LET init == ArrayFromSet(SubSeq(arr, 1, Len(arr) - 1))
             last == arr[Len(arr)]
         IN  IF \E i \in 1..Len(init) : init[i] = last
             THEN init
             ELSE Append(init, last)

\* arr.join(sep) on an array of strings
RECURSIVE join(_, _)
join(arr, sep) ==
    IF arr = <<>> THEN <<>>
    ELSE IF Len(arr) = 1 THEN arr[1]
    ELSE arr[1] \o sep \o join(Tail(arr), sep)

\* ------------------------------------------------------------------------
\* QueryBuilder: lines 384-408 of getUserBySkills
\* ------------------------------------------------------------------------

\* The characters of the class [\s:\(\)\"] of q.
QuoteChars == WhiteSpace \cup {":", "(", ")", "\""}

\* q without its test: no value is quoted.
qUnquoted(v) == v

\* const q = (v) => (/[\s:\(\)\"]/.test(v) ? `"${v}"` : v)
q(v) ==
    IF \E i \in 1..Len(v) : v[i] \in QuoteChars
    THEN <<"\"">> \o v \o <<"\"">>
    ELSE v

\* Array.from(new Set((filters.skills || []).map(s => s.trim()).filter(Boolean)))
uniqueSkills(filters) ==
    ArrayFromSet(FilterBoolean(MapTrim(
        IF filters.skills = undefinedArr THEN <<>> ELSE filters.skills)))

\* skillQuery with the two filters appended in the other order.
skillQueryOfficeFirst(skill, filters) ==
    <<"(", "Skills", ":">> \o q(skill)
    \o (IF Truthy(filters.officeNumber)
        THEN <<" ", "AND", " ", "OfficeNumber", ":">> \o q(filters.officeNumber)
        ELSE <<>>)
    \o (IF Truthy(filters.department)
        THEN <<" ", "AND", " ", "Department", ":">> \o q(filters.department)
        ELSE <<>>)
    \o <<")">>

\* The body of the loop over uniqueSkills: one query of a skill.
skillQuery(skill, filters) ==
    LET part0 == <<"Skills", ":">> \o q(skill)
        part1 == IF Truthy(filters.department)
                 THEN part0 \o <<" ", "AND", " ", "Department", ":">>
                            \o q(filters.department)
                 ELSE part0
        part2 == IF Truthy(filters.officeNumber)
                 THEN part1 \o <<" ", "AND", " ", "OfficeNumber", ":">>
                            \o q(filters.officeNumber)
                 ELSE part1
    IN  <<"(">> \o part2 \o <<")">>

\* combinedQuery that leaves the department out when there is an office.
combinedQueryOfficeOnly(filters) ==
    IF Truthy(filters.officeNumber)
    THEN <<"(", "OfficeNumber", ":">> \o q(filters.officeNumber) \o <<")">>
    ELSE <<"(", "Department", ":">> \o q(filters.department) \o <<")">>

\* The branch without skills: office first, then department.
combinedQuery(filters) ==
    LET parts == (IF Truthy(filters.officeNumber)
                  THEN << <<"OfficeNumber", ":">> \o q(filters.officeNumber) >>
                  ELSE <<>>)
                 \o
                 (IF Truthy(filters.department)
                  THEN << <<"Department", ":">> \o q(filters.department) >>
                  ELSE <<>>)
    IN  <<"(">> \o join(parts, <<" ", "AND", " ">>) \o <<")">>

\* The fallback: the raw query in Skills.
fallbackQuery(query) == <<"(", "Skills", ":">> \o q(query) \o <<")">>

\* searchQueries as getUserBySkills builds it from the filters and the query.
searchQueriesOf(filters, query) ==
    LET us == uniqueSkills(filters)
    IN  IF Len(us) > 0
        THEN [i \in 1..Len(us) |-> skillQuery(us[i], filters)]
        ELSE IF Truthy(filters.department) \/ Truthy(filters.officeNumber)
        THEN << combinedQuery(filters) >>
        ELSE << fallbackQuery(query) >>

\* ------------------------------------------------------------------------
\* Regular expressions of extractFilters, on sequences of symbols
\* ------------------------------------------------------------------------

Min(S) == CHOOSE x \in S : \A y \in S : x <= y

Max(S) == CHOOSE x \in S : \A y \in S : x >= y

\* The symbols that are runs of the letters [A-Za-z].
LetterWords ==
    {"Leadership", "leadership", "Coaching", "Team", "Building", "Sales",
     "Quality", "Assurance", "Helsinki", "Espoo", "anyone", "in", "at",
     "office", "Office", "department", "Department", "Dept", "of", "based",
     "located", "Location", "skills", "officeNumber", "location", "null",
     "AND", "Skills", "OfficeNumber"}

\* The first index from i on that holds no white space (\s* and \s+ end here).
SkipWs(s, i) ==
    LET C == {j \in i..Len(s) : s[j] \notin WhiteSpace}
    IN  IF C = {} THEN Len(s) + 1 ELSE Min(C)

\* The last index of the longest run from i on of symbols of S.
RunEndIn(s, i, S) ==
    LET C == {j \in i..Len(s) : s[j] \notin S}
    IN  IF C = {} THEN Len(s) ELSE Min(C) - 1

\* The last index of the longest run from i on of symbols not of S.
RunEndNotIn(s, i, S) ==
    LET C == {j \in i..Len(s) : s[j] \in S}
    IN  IF C = {} THEN Len(s) ELSE Min(C) - 1

\* The characters the capture [^,;\n\)\(]+ stops at.
LabelStop == {",", ";", "\n", ")", "("}

\* The capture of  <label>\s*[:\-]\s*([^,;\n\)\(]+)  with the label ending
\* at index k, or undefined.  The second \s* gives white space back to the
\* capture when nothing else is left for it.
LabelCaptureAt(s, k) ==
    LET c == SkipWs(s, k + 1)
    IN  IF c > Len(s) \/ s[c] \notin {":", "-"} THEN undefined
        ELSE LET w == SkipWs(s, c + 1)
                 back == {t \in (c + 1)..(w - 1) : s[t] \notin LabelStop}
             IN  IF w <= Len(s) /\ s[w] \notin LabelStop
                 THEN SubSeq(s, w, RunEndNotIn(s, w, LabelStop))
                 ELSE IF back # {} THEN << s[Max(back)] >>
                 ELSE undefined

\* a || b || ... on the captures of a list of exec calls: the capture of the
\* first that matched, undefined when none did.
FirstMatch(captures) ==
    LET hits == {i \in 1..Len(captures) : captures[i] # undefined}
    IN  IF hits = {} THEN undefined ELSE captures[Min(hits)]

\* /<label>\s*[:\-]\s*([^,;\n\)\(]+)/i.exec(text)?.[1], the label being one
\* of Labels, followed by a dot when dot is TRUE and there is one (Dept\.?):
\* the leftmost match.
LabelMatch(s, Labels, dot) ==
    FirstMatch([p \in 1..Len(s) |->
        IF LowerSym(s[p]) \notin Labels THEN undefined
        ELSE IF dot /\ p < Len(s) /\ s[p + 1] = "."
        THEN LabelCaptureAt(s, p + 1)
        ELSE LabelCaptureAt(s, p)])

\* The characters of [A-Za-z &\-].
NameClass == LetterWords \cup {" ", "&", "-"}

\* /([A-Za-z &\-]+)\s+department/i.exec(text)?.[1]: leftmost start, then the
\* longest capture that white space and "department" follow.
BeforeDepartment(s) ==
    LET ok(p, e) ==
            /\ \A k \in p..e : s[k] \in NameClass
            /\ LET j == SkipWs(s, e + 1)
               IN  j > e + 1 /\ j <= Len(s) /\ LowerSym(s[j]) = "department"
        hits == {pe \in (1..Len(s)) \X (1..Len(s)) :
                    pe[1] <= pe[2] /\ ok(pe[1], pe[2])}
    IN  IF hits = {} THEN undefined
        ELSE LET p == Min({pe[1] : pe \in hits})
                 e == Max({pe[2] : pe \in {h \in hits : h[1] = p}})
             IN  SubSeq(s, p, e)

\* /department\s+of\s+([^,;\n\)\(]+)/i.exec(text)?.[1]
DepartmentOf(s) ==
    LET capt(p) ==
            LET o == SkipWs(s, p + 1)
                w == SkipWs(s, o + 1)
            IN  IF /\ o > p + 1 /\ o <= Len(s) /\ LowerSym(s[o]) = "of"
                   /\ w > o + 1
                THEN IF w <= Len(s) /\ s[w] \notin LabelStop
                     THEN SubSeq(s, w, RunEndNotIn(s, w, LabelStop))
                     ELSE LET back == {x \in (o + 2)..(w - 1) :
                                          s[x] \notin LabelStop}
                          IN  IF back # {} THEN << s[Max(back)] >>
                              ELSE undefined
                ELSE undefined
        hits == {p \in 1..Len(s) :
                    LowerSym(s[p]) = "department" /\ capt(p) # undefined}
    IN  IF hits = {} THEN undefined ELSE capt(Min(hits))

\* The characters of [A-Za-z\-\s&].
PlaceClass == LetterWords \cup WhiteSpace \cup {"-", "&"}

\* /<words>\s+([A-Z][A-Za-z\-\s&]+)/i.exec(text)?.[1], <words> being one of
\* the sequences of Phrases (lower case, single spaces between the words).
PlaceMatch(s, Phrases) ==
    LET at(p, ph) ==
            /\ p + Len(ph) - 1 <= Len(s)
            /\ \A k \in 1..Len(ph) : LowerSym(s[p + k - 1]) = ph[k]
        capt(p, ph) ==
            LET w == SkipWs(s, p + Len(ph))
            IN  IF at(p, ph) /\ w > p + Len(ph) /\ w <= Len(s)
                   /\ s[w] \in LetterWords
                THEN SubSeq(s, w, RunEndIn(s, w, PlaceClass))
                ELSE undefined
        hits == {x \in (1..Len(s)) \X Phrases : capt(x[1], x[2]) # undefined}
    IN  IF hits = {} THEN undefined
        ELSE LET p == Min({x[1] : x \in hits})
                 x == CHOOSE y \in hits : y[1] = p
             IN  capt(x[1], x[2])

\* text.split(/[,;\n]/)[0]
BeforeStop(v) == SubSeq(v, 1, RunEndNotIn(v, 1, {",", ";", "\n"}))

\* clean of detect: the trimmed capture up to the first comma, semicolon or
\* newline; undefined when there was no match.
clean(s) == IF ~Truthy(s) THEN undefined ELSE trim(BeforeStop(trim(s)))

\* detect of extractFilters: the first pattern of each ordered list that
\* matches gives the value.
detect(text) ==
    [department |->
        clean(FirstMatch(<<LabelMatch(text, {"department"}, FALSE),
                           LabelMatch(text, {"dept"}, TRUE),
                           BeforeDepartment(text),
                           DepartmentOf(text)>>)),
     officeNumber |->
        clean(FirstMatch(<<LabelMatch(text, {"office", "officenumber"}, FALSE),
                           LabelMatch(text, {"location"}, FALSE),
                           PlaceMatch(text, {<<"based", " ", "in">>}),
                           PlaceMatch(text, {<<"located", " ", "in">>}),
                           PlaceMatch(text, {<<"in">>, <<"at">>}),
                           PlaceMatch(text, {<<"office", " ", "in">>})>>))]

\* ------------------------------------------------------------------------
\* The reply of the extraction call and JSON.parse
\* ------------------------------------------------------------------------

\* The value of a member of a parsed JSON object: a string, an array of
\* strings, null, or undefined for a key the object does not have.
JsUndefined == [t |-> "undefined", v |-> <<>>]

JsNull == [t |-> "null", v |-> <<>>]

JsStr(s) == [t |-> "string", v |-> <<s>>]

JsArr(a) == [t |-> "array", v |-> a]

\* parsed.key
Member(o, k) == IF k \in DOMAIN o THEN o[k] ELSE JsUndefined

\* parsed.k1 ?? parsed.k2 ?? ... ?? undefined
RECURSIVE Coalesce(_, _)
Coalesce(o, keys) ==
    IF keys = <<>> THEN JsUndefined
    ELSE IF Member(o, Head(keys)).t \notin {"null", "undefined"}
    THEN Member(o, Head(keys))
    ELSE Coalesce(o, Tail(keys))

\* String(value) of a member that is not nullish
StringOf(val) == IF val.t = "string" THEN val.v[1] ELSE join(val.v, <<",">>)

\* value && String(value).trim(), as a condition
TruthyTrimmed(val) ==
    /\ val.t \in {"string", "array"}
    /\ (val.t = "string" => val.v[1] # <<>>)
    /\ trim(StringOf(val)) # <<>>

\* JSON.stringify of a string of the model (no character needs an escape).
QuotedText(s) == <<"\"">> \o s \o <<"\"">>

\* JSON.stringify of a member value.
ValueText(val) ==
    CASE val.t = "string" -> QuotedText(val.v[1])
      [] val.t = "array" ->
            <<"[">> \o join([i \in 1..Len(val.v) |-> QuotedText(val.v[i])],
                            <<",">>) \o <<"]">>
      [] OTHER -> <<"null">>

\* The order of the keys in the text of an object.
KeyOrder == <<"skills", "department", "Department", "officeNumber", "location">>

\* The compact JSON text of an object.
ObjectText(o) ==
    LET present == SelectSeq(KeyOrder, LAMBDA k : k \in DOMAIN o)
    IN  <<"{">>
        \o join([i \in 1..Len(present) |->
                    QuotedText(<<present[i]>>) \o <<":">>
                    \o ValueText(o[present[i]])], <<",">>)
        \o <<"}">>

\* The object with the members that are given (not JsUndefined).
ObjectOf(skills, department, Department, officeNumber, location) ==
    LET all == [skills |-> skills, department |-> department,
                Department |-> Department, officeNumber |-> officeNumber,
                location |-> location]
        keys == {k \in DOMAIN all : all[k].t # "undefined"}
    IN  [k \in keys |-> all[k]]

\* The strings a model reply lists as skills.
SkillItems ==
    {<<"Leadership">>, <<"leadership">>, <<"Coaching">>,
     <<"Team", " ", "Building">>, <<>>, <<" ", "Leadership">>, <<LoneSurr>>}

SkillArrays == UNION {[1..n -> SkillItems] : n \in 0..MaxSkills}

\* The JSON objects a reply can hold.
JsonObjects ==
    {ObjectOf(s, d, D, o, l) :
        s \in {JsUndefined, JsStr(<<"Leadership">>)}
              \cup {JsArr(a) : a \in SkillArrays},
        d \in {JsUndefined, JsNull, JsStr(<<>>), JsStr(<<"Sales">>),
               JsStr(<<"Quality", " ", "Assurance">>)},
        D \in {JsUndefined, JsStr(<<"Sales">>)},
        o \in {JsUndefined, JsStr(<<"Helsinki">>)},
        l \in {JsUndefined, JsStr(<<"Espoo">>)}}

\* Replies that are not JSON objects: JSON arrays and scalars, free text.
OtherTexts ==
    {<<"[", "]">>, <<"null">>,
     <<"Leadership", ",", " ", "Coaching">>,
     <<"Leadership", "/", "Coaching", "\n">>,
     <<"Sales", " ", "department">>,
     <<"Department", ":", " ", "Sales", ",", " ", "Office", ":", " ",
       "Helsinki">>,
     <<"based", " ", "in", " ", "Helsinki">>,
     <<",">>, <<" ">>, <<>>}

\* message.content of the completion, with what JSON.parse makes of the
\* trimmed text: kind "object" with its members, "array" or "scalar" for
\* other JSON, "invalid" when JSON.parse throws.
Contents ==
    {[text |-> ObjectText(o), kind |-> "object", members |-> o] :
        o \in JsonObjects}
    \cup
    {[text |-> x,
      kind |-> IF x = <<"[", "]">> THEN "array"
               ELSE IF x = <<"null">> THEN "scalar" ELSE "invalid",
      members |-> [k \in {} |-> JsNull]] : x \in OtherTexts}

\* How the extraction call ends: it rejects, or it resolves with a
\* completion that has a content, or with one that has none.
ExtractionOutcomes ==
    {[type |-> "rejects", content |-> [text |-> <<>>, kind |-> "invalid",
                                       members |-> [k \in {} |-> JsNull]]],
     [type |-> "nocontent", content |-> [text |-> <<>>, kind |-> "invalid",
                                         members |-> [k \in {} |-> JsNull]]]}
    \cup {[type |-> "content", content |-> c] : c \in Contents}

\* ------------------------------------------------------------------------
\* FilterExtractor: extractFilters, lines 417-509
\* ------------------------------------------------------------------------

\* const defaultResult = { skills: [query] }
defaultResult(query) ==
    [skills |-> <<query>>, department |-> undefined,
     officeNumber |-> undefined]

\* The keys read for the department and for the office, in order.
DeptKeys == <<"department", "Department", "dept", "Dept", "departmentName">>

OfficeKeys == <<"officeNumber", "office", "Office", "location", "Location">>

\* text.split(D).map(s => s.trim()).filter(Boolean), D a class of single
\* characters repeated (+): the trimmed non-empty pieces between the runs of
\* delimiters.
RECURSIVE splitTrimmed(_, _)
splitTrimmed(s, D) ==
    IF s = <<>> THEN <<>>
    ELSE IF Head(s) \in D THEN splitTrimmed(Tail(s), D)
    ELSE LET e == RunEndNotIn(s, 1, D)
         IN  FilterBoolean(<< trim(SubSeq(s, 1, e)) >>)
             \o splitTrimmed(SubSeq(s, e + 1, Len(s)), D)

\* Lines 451-462: the result built from the parsed object, and whether
\* extractFilters returns it (it has a skill, a department or an office).
parsedResult(o) ==
    LET skills == IF Member(o, "skills").t = "array"
                  THEN FilterBoolean(MapTrim(Member(o, "skills").v))
                  ELSE <<>>
        department == Coalesce(o, DeptKeys)
        officeNumber == Coalesce(o, OfficeKeys)
        result == [skills |-> skills,
                   department |-> IF TruthyTrimmed(department)
                                  THEN trim(StringOf(department))
                                  ELSE undefined,
                   officeNumber |-> IF TruthyTrimmed(officeNumber)
                                    THEN trim(StringOf(officeNumber))
                                    ELSE undefined]
    IN  [returned |-> \/ Len(skills) > 0
                      \/ Truthy(result.department)
                      \/ Truthy(result.officeNumber),
         result |-> result]

\* Lines 496-502: the result of the fallback from the pieces of the reply,
\* what detect found in the reply and what it found in the query.
heuristicFrom(fallbackSkills, heurText, heurQuery, query) ==
    [skills |-> IF Len(fallbackSkills) > 0 THEN fallbackSkills
                ELSE <<query>>,
     department |->
        IF Truthy(heurText.department) THEN heurText.department
        ELSE IF Truthy(heurText.officeNumber) THEN undefined
        ELSE IF Truthy(heurQuery.department) THEN heurQuery.department
        ELSE undefined,
     officeNumber |->
        IF Truthy(heurText.officeNumber) THEN heurText.officeNumber
        ELSE IF Truthy(heurText.department) THEN undefined
        ELSE IF Truthy(heurQuery.officeNumber) THEN heurQuery.officeNumber
        ELSE undefined]

\* Lines 467-502: the heuristic fallback on the text of the reply; detect is
\* run on the query when it found neither value in the reply.
heuristicResult(extracted, query) ==
    heuristicFrom(splitTrimmed(extracted, {"\n", ",", ";", "|", "/"}),
                  detect(extracted), detect(query), query)

\* filtersOfContent without the return of line 447 for an empty content.
filtersOfContentNoEmptyCheck(extracted, parsed, structured, query) ==
    IF parsed.kind \in {"object", "array"} /\ structured.returned
    THEN structured.result
    ELSE heuristicResult(extracted, query)

\* Lines 447-502 on the trimmed content and what JSON.parse made of it.
filtersOfContent(extracted, parsed, structured, query) ==
    IF extracted = <<>> THEN defaultResult(query)
    ELSE IF parsed.kind \in {"object", "array"} /\ structured.returned
    THEN structured.result
    ELSE heuristicResult(extracted, query)

\* What extractFilters returns once the extraction call has ended with
\* outcome (lines 446-508).
extractFilters(query, outcome) ==
    IF outcome.type = "rejects" THEN defaultResult(query)
    ELSE filtersOfContent(
            IF outcome.type = "nocontent" THEN <<>>
            ELSE trim(outcome.content.text),
            outcome.content, parsedResult(outcome.content.members), query)

\* ------------------------------------------------------------------------
\* SearchExecutor: runSearchFor, lines 514-574
\* ------------------------------------------------------------------------

\* searchQuery.replace(/'/g, "''")
RECURSIVE safeQueryOf(_)
safeQueryOf(s) ==
    IF s = <<>> THEN <<>>
    ELSE (IF Head(s) = "'" THEN <<"'", "'">> ELSE <<Head(s)>>)
         \o safeQueryOf(Tail(s))

\* encodeURIComponent throws a URIError on an unpaired surrogate.
URIMalformed(s) == \E i \in 1..Len(s) : s[i] = LoneSurr

\* encodeURIComponent of one symbol: letters and - _ . ! ~ * ' ( ) stay.
EncodeSym(c) ==
    CASE c = " " -> "%20"
      [] c = "\n" -> "%0A"
      [] c = "\t" -> "%09"
      [] c = ":" -> "%3A"
      [] c = "\"" -> "%22"
      [] c = "," -> "%2C"
      [] c = ";" -> "%3B"
      [] c = "/" -> "%2F"
      [] c = "|" -> "%7C"
      [] c = "&" -> "%26"
      [] c = "{" -> "%7B"
      [] c = "}" -> "%7D"
      [] c = "[" -> "%5B"
      [] c = "]" -> "%5D"
      [] OTHER -> c

encodeURIComponent(s) == [i \in 1..Len(s) |-> EncodeSym(s[i])]

\* The aliases of each field, in the order findValue tries them.
NameKeys == <<"PreferredName", "Title", "AccountName">>

EmailKeys == <<"WorkEmail", "AccountName", "SPS-Mail">>

SkillsKeys == <<"Skills", "PeopleKeywords", "Tags", "RefinableString01">>

DepartmentKeys == <<"Department", "SPS-Department", "Office">>

LocationKeys == <<"Office", "SPS-Location", "Location", "OfficeNumber">>

\* findValue with the aliases tried from the last to the first.
RECURSIVE findValueLast(_, _)
findValueLast(cells, keys) ==
    IF keys = <<>> THEN undefined
    ELSE LET k == keys[Len(keys)]
             found == {i \in 1..Len(cells) : cells[i].Key = k}
         IN  IF found # {} /\ Truthy(cells[Min(found)].Value)
             THEN cells[Min(found)].Value
             ELSE findValueLast(cells, SubSeq(keys, 1, Len(keys) - 1))

\* const findValue = (keys) => ...: the value of the first key whose first
\* cell has a truthy value, or undefined (null in the source; ?? treats both
\* alike).
RECURSIVE findValue(_, _)
findValue(cells, keys) ==
    IF keys = <<>> THEN undefined
    ELSE LET found == {i \in 1..Len(cells) : cells[i].Key = Head(keys)}
         IN  IF found # {} /\ Truthy(cells[Min(found)].Value)
             THEN cells[Min(found)].Value
             ELSE findValue(cells, Tail(keys))

\* The user one row maps to (lines 537-566).
userOfRow(row) ==
    LET cells == row.Cells
        name == IF findValue(cells, NameKeys) = undefined THEN <<>>
                ELSE findValue(cells, NameKeys)
        email == findValue(cells, EmailKeys)
        rawSkills == IF findValue(cells, SkillsKeys) = undefined THEN <<>>
                     ELSE findValue(cells, SkillsKeys)
        department == findValue(cells, DepartmentKeys)
        location == findValue(cells, LocationKeys)
        skills == splitTrimmed(rawSkills, {",", ";", "|", "\n", "/"})
    IN  [displayName |-> trim(name),
         workEmail |-> IF Truthy(email) THEN trim(email) ELSE undefined,
         skills |-> IF Len(skills) > 0 THEN skills ELSE undefinedArr,
         department |-> IF Truthy(department) THEN trim(department)
                        ELSE undefined,
         location |-> IF Truthy(location) THEN trim(location)
                      ELSE undefined]

\* usersOfRows without the filter on displayName.
usersOfRowsUnfiltered(rows) == [i \in 1..Len(rows) |-> userOfRow(rows[i])]

\* rows.map(...).filter(u => u.displayName)
usersOfRows(rows) ==
    SelectSeq([i \in 1..Len(rows) |-> userOfRow(rows[i])],
              LAMBDA u : u.displayName # <<>>)

\* What runSearchFor resolves with once fetch has ended with resp (lines
\* 527-573): every failure is caught and gives [].
usersOfResponse(resp) ==
    CASE resp.type = "rows" -> usersOfRows(resp.rows)
      [] OTHER -> <<>>

\* ------------------------------------------------------------------------
\* ResultMerger: combineResults, lines 578-607
\* ------------------------------------------------------------------------

\* keyOf that lowers the case of the name as it does for the email.
keyOfLowerName(user) ==
    IF Truthy(user.workEmail)
    THEN <<"email:">> \o toLowerCase(user.workEmail)
    ELSE <<"name:">> \o toLowerCase(user.displayName)

\* The identity key of a user (line 583).
keyOf(user) ==
    IF Truthy(user.workEmail)
    THEN <<"email:">> \o toLowerCase(user.workEmail)
    ELSE <<"name:">> \o user.displayName

\* The clone pushed for the first occurrence of a key (lines 587-593).
cloneOf(user) ==
    [displayName |-> user.displayName,
     workEmail |-> user.workEmail,
     skills |-> IF user.skills # undefinedArr THEN ArrayFromSet(user.skills)
                ELSE undefinedArr,
     department |-> user.department,
     location |-> user.location]

\* mergedInto that takes the skills of the later occurrence instead of the
\* union.
mergedIntoLaterSkills(existing, user) ==
    [displayName |-> existing.displayName,
     workEmail |-> existing.workEmail,
     skills |-> IF user.skills # undefinedArr /\ Len(user.skills) > 0
                THEN ArrayFromSet(user.skills)
                ELSE existing.skills,
     department |-> IF ~Truthy(existing.department) /\ Truthy(user.department)
                    THEN user.department ELSE existing.department,
     location |-> IF ~Truthy(existing.location) /\ Truthy(user.location)
                  THEN user.location ELSE existing.location]

\* mergedInto that lets a later department overwrite the one present.
mergedIntoOverwrite(existing, user) ==
    [displayName |-> existing.displayName,
     workEmail |-> existing.workEmail,
     skills |-> IF user.skills # undefinedArr /\ Len(user.skills) > 0
                THEN ArrayFromSet(
                        (IF existing.skills # undefinedArr
                         THEN existing.skills ELSE <<>>) \o user.skills)
                ELSE existing.skills,
     department |-> IF Truthy(user.department)
                    THEN user.department ELSE existing.department,
     location |-> IF ~Truthy(existing.location) /\ Truthy(user.location)
                  THEN user.location ELSE existing.location]

\* The existing entry after a later occurrence is merged in (lines 597-602).
mergedInto(existing, user) ==
    [displayName |-> existing.displayName,
     workEmail |-> existing.workEmail,
     skills |-> IF user.skills # undefinedArr /\ Len(user.skills) > 0
                THEN ArrayFromSet(
                        (IF existing.skills # undefinedArr
                         THEN existing.skills ELSE <<>>) \o user.skills)
                ELSE existing.skills,
     department |-> IF ~Truthy(existing.department) /\ Truthy(user.department)
                    THEN user.department ELSE existing.department,
     location |-> IF ~Truthy(existing.location) /\ Truthy(user.location)
                  THEN user.location ELSE existing.location]

\* combineUser that moves the entry a later occurrence is merged into to
\* the end of combined.
combineUserMoveLast(acc, user) ==
    LET key == keyOf(user)
    IN  IF key \notin acc.seen
        THEN [seen |-> acc.seen \cup {key},
              combined |-> Append(acc.combined, cloneOf(user))]
        ELSE LET at == Min({i \in 1..Len(acc.combined) :
                                keyOf(acc.combined[i]) = key})
             IN  [seen |-> acc.seen,
                  combined |->
                     Append(SubSeq(acc.combined, 1, at - 1)
                            \o SubSeq(acc.combined, at + 1, Len(acc.combined)),
                            mergedInto(acc.combined[at], user))]

\* One turn of the inner loop (lines 582-604) on the pair of seen and
\* combined.
combineUser(acc, user) ==
    LET key == keyOf(user)
    IN  IF key \notin acc.seen
        THEN [seen |-> acc.seen \cup {key},
              combined |-> Append(acc.combined, cloneOf(user))]
        ELSE LET at == Min({i \in 1..Len(acc.combined) :
                                keyOf(acc.combined[i]) = key})
             IN  [seen |-> acc.seen,
                  combined |-> [acc.combined EXCEPT
                                  ![at] = mergedInto(acc.combined[at], user)]]

\* The users of all the arrays in the order the two loops visit them.
RECURSIVE flat(_)
flat(resultsArrays) ==
    IF resultsArrays = <<>> THEN <<>>
    ELSE Head(resultsArrays) \o flat(Tail(resultsArrays))

RECURSIVE combineAll(_, _)
combineAll(acc, users) ==
    IF users = <<>> THEN acc
    ELSE combineAll(combineUser(acc, Head(users)), Tail(users))

\* combineResults(resultsArrays)
combineResults(resultsArrays) ==
    combineAll([seen |-> {}, combined |-> <<>>], flat(resultsArrays)).combined

\* combineResults of the class without skills, department and location: a
\* user is pushed as it is when its key is new and dropped otherwise.
RECURSIVE pushFirstSeen(_, _)
pushFirstSeen(combined, users) ==
    IF users = <<>> THEN combined
    ELSE pushFirstSeen(
            IF \E k \in 1..Len(combined) :
                  keyOf(combined[k]) = keyOf(Head(users))
            THEN combined
            ELSE Append(combined, Head(users)),
            Tail(users))

combineResultsFirstSeen(resultsArrays) == pushFirstSeen(<<>>, flat(resultsArrays))

\* ------------------------------------------------------------------------
\* Orchestrator: getUserBySkills, lines 379-413, as a state machine
\* ------------------------------------------------------------------------

VARIABLES
    pc,             \* where the call is: "idle", "extract", "search", "done"
                    \* (and "merge", "merged" in SpecMerge and SpecFill)
    configured,     \* AZURE_OPENAI_ENDPOINT and AZURE_OPENAI_API_KEY are set
    query,          \* the argument of getUserBySkills
    extraction,     \* how the extraction call ended, "none" before it has
    reply,          \* the answer of the outside that the step under study
                    \* gets: the outcome of the extraction call in
                    \* SpecExtract and SpecSkills, the response of the
                    \* search backend in SpecRows; NoReply elsewhere
    filters,        \* what extractFilters returned
    searchQueries,  \* the queries built from the filters
    requests,       \* one runSearchFor per query: its state, URL and users
    settled,        \* history of SpecBatch: the requests whose fetch has
                    \* ended, in that order; <<>> elsewhere
    resultsArrays,  \* the argument of combineResults
    outcome,        \* "none", "returned" or "threw" (the promise rejected)
    result          \* the array getUserBySkills resolved with

vars == <<pc, configured, query, extraction, reply, filters, searchQueries,
          requests, settled, resultsArrays, outcome, result>>

\* The queries of the callers.
Queries ==
    {<<"anyone", " ", "in", " ", "Helsinki", " ", "office">>,
     <<"Leadership">>, <<" ", "Leadership", " ">>, <<>>, <<" ">>,
     <<LoneSurr>>}

\* Rows of the search backend.
RowAnn ==
    [Cells |-> <<[Key |-> "PreferredName", Value |-> <<"Ann">>],
                 [Key |-> "WorkEmail", Value |-> <<"a@x.com">>],
                 [Key |-> "Skills", Value |-> <<"Leadership">>],
                 [Key |-> "Department", Value |-> <<"Sales">>]>>]

RowAnnUpper ==
    [Cells |-> <<[Key |-> "PreferredName", Value |-> <<"Ann">>],
                 [Key |-> "WorkEmail", Value |-> <<"A@X.COM">>],
                 [Key |-> "Skills",
                  Value |-> <<"Coaching", ";", " ", "Leadership">>],
                 [Key |-> "Office", Value |-> <<"Helsinki">>]>>]

RowBob ==
    [Cells |-> <<[Key |-> "PreferredName", Value |-> <<>>],
                 [Key |-> "Title", Value |-> <<" ", "Bob", " ">>]>>]

RowNoName ==
    [Cells |-> <<[Key |-> "WorkEmail", Value |-> <<"c@x.com">>],
                 [Key |-> "PreferredName", Value |-> <<" ">>]>>]

\* The Rows of a well-formed response.
Payloads == {<<>>, <<RowAnn, RowBob>>, <<RowNoName, RowBob, RowAnnUpper>>}

\* How a fetch ends: it rejects (network error), it resolves with a status
\* that is not 2xx, with a body that is not JSON, with a body whose Rows is
\* not an array, or with rows.
Responses ==
    {[type |-> x, rows |-> <<>>] :
        x \in {"neterr", "http500", "badjson", "badrows"}}
    \cup {[type |-> "rows", rows |-> p] : p \in Payloads}

NoFilters == [skills |-> <<>>, department |-> undefined,
              officeNumber |-> undefined]

NoReply == [type |-> "none", content |-> [text |-> <<>>, kind |-> "invalid",
                                          members |-> [k \in {} |-> JsNull]]]

\* runSearchFor up to its await of fetch (lines 514-528): encodeURIComponent
\* is evaluated before the try block, so its URIError rejects the promise of
\* runSearchFor; otherwise the request is sent.
runSearchForStart(searchQuery) ==
    LET safeQuery == safeQueryOf(searchQuery)
    IN  IF URIMalformed(safeQuery)
        THEN [state |-> "threw", url |-> <<>>, users |-> <<>>]
        ELSE [state |-> "pending", url |-> encodeURIComponent(safeQuery),
              users |-> <<>>]

\* runSearchFor from the end of its fetch on (lines 528-573).
runSearchForEnd(request, resp) ==
    [state |-> IF resp.type = "rows" THEN "ok" ELSE "failed",
     url |-> request.url,
     users |-> usersOfResponse(resp)]

\* Lines 384-411 once the filters are known: build the queries and call
\* runSearchFor for each of them.
BuildAndSearch(f, qr) ==
    /\ filters' = f
    /\ searchQueries' = searchQueriesOf(f, qr)
    /\ requests' = [i \in 1..Len(searchQueries') |->
                        runSearchForStart(searchQueries'[i])]
    /\ pc' = "search"

Init ==
    /\ pc = "idle"
    /\ configured \in BOOLEAN
    /\ query = <<>>
    /\ extraction = "none"
    /\ reply = NoReply
    /\ filters = NoFilters
    /\ searchQueries = <<>>
    /\ requests = <<>>
    /\ settled = <<>>
    /\ resultsArrays = <<>>
    /\ outcome = "none"
    /\ result = <<>>

\* getUserBySkills(q) up to its first await that waits for the outside:
\* without configuration extractFilters returns at once (lines 425-428).
getUserBySkills(qr) ==
    /\ pc = "idle"
    /\ query' = qr
    /\ IF configured
       THEN /\ pc' = "extract"
            /\ UNCHANGED <<extraction, filters, searchQueries, requests>>
       ELSE /\ extraction' = "skipped"
            /\ BuildAndSearch(defaultResult(qr), qr)
    /\ UNCHANGED <<configured, reply, settled, resultsArrays, outcome, result>>

\* The extraction call ends; extractFilters returns and the searches start.
ExtractionEnds ==
    /\ pc = "extract"
    /\ \E o \in ExtractionOutcomes :
          /\ extraction' = o.type
          /\ BuildAndSearch(extractFilters(query, o), query)
    /\ UNCHANGED <<configured, query, reply, settled, resultsArrays, outcome,
                   result>>

\* A rejected runSearchFor rejects Promise.all in the same turn of the
\* event loop, before any response is handled.
Rejected == \E i \in 1..Len(requests) : requests[i].state = "threw"

\* The fetch of request i ends with resp and runSearchFor resolves.
FetchSettles(i, resp) ==
    /\ pc \in {"search", "done"}
    /\ ~(pc = "search" /\ Rejected)
    /\ i \in 1..Len(requests)
    /\ requests[i].state = "pending"
    /\ requests' = [requests EXCEPT ![i] = runSearchForEnd(requests[i], resp)]
    /\ UNCHANGED <<pc, configured, query, extraction, reply, filters,
                   searchQueries, resultsArrays, outcome, result>>

\* The fetch of request i ends with resp.
FetchEnds(i, resp) == FetchSettles(i, resp) /\ UNCHANGED settled

\* PromiseAllResolves that takes the results in the order in which the
\* requests completed.
PromiseAllResolvesAsCompleted ==
    /\ pc = "search"
    /\ \A i \in 1..Len(requests) : requests[i].state \in {"ok", "failed"}
    /\ resultsArrays' = [k \in 1..Len(settled) |-> requests[settled[k]].users]
    /\ result' = combineResults(resultsArrays')
    /\ outcome' = "returned"
    /\ pc' = "done"
    /\ UNCHANGED <<configured, query, extraction, reply, filters,
                   searchQueries, requests, settled>>

\* PromiseAllResolves that does not wait for every runSearchFor: it goes on
\* as soon as one has resolved.
PromiseAllResolvesEarly ==
    /\ pc = "search"
    /\ ~Rejected
    /\ \E i \in 1..Len(requests) : requests[i].state \in {"ok", "failed"}
    /\ resultsArrays' = [i \in 1..Len(requests) |-> requests[i].users]
    /\ result' = combineResults(resultsArrays')
    /\ outcome' = "returned"
    /\ pc' = "done"
    /\ UNCHANGED <<configured, query, extraction, reply, filters,
                   searchQueries, requests, settled>>

\* Promise.all resolves: every runSearchFor has resolved (line 411), and
\* combineResults gives the result (line 412).
PromiseAllResolves ==
    /\ pc = "search"
    /\ \A i \in 1..Len(requests) : requests[i].state \in {"ok", "failed"}
    /\ resultsArrays' = [i \in 1..Len(requests) |-> requests[i].users]
    /\ result' = combineResults(resultsArrays')
    /\ outcome' = "returned"
    /\ pc' = "done"
    /\ UNCHANGED <<configured, query, extraction, reply, filters,
                   searchQueries, requests, settled>>

\* Promise.all rejects: the await of line 411 throws and getUserBySkills
\* rejects.
PromiseAllRejects ==
    /\ pc = "search"
    /\ Rejected
    /\ outcome' = "threw"
    /\ pc' = "done"
    /\ UNCHANGED <<configured, query, extraction, reply, filters,
                   searchQueries, requests, settled, resultsArrays, result>>

Next ==
    \/ \E qr \in Queries : getUserBySkills(qr)
    \/ ExtractionEnds
    \/ \E i \in 1..Len(requests), resp \in Responses : FetchEnds(i, resp)
    \/ PromiseAllResolves
    \/ PromiseAllRejects

Spec == Init /\ [][Next]_vars

\* ------------------------------------------------------------------------
\* combineResults on its own: the argument is drawn from bounded sets
\* ------------------------------------------------------------------------

\* Users that differ in identity and skills; runSearchFor gives '' for an
\* email cell of white space.
IdentityPool ==
    [displayName : {<<"Ann">>},
     workEmail : {undefined, <<>>, <<"a@x.com">>, <<"A@X.COM">>},
     skills : {undefinedArr, << <<"Leadership">> >>,
               << <<"Coaching">>, <<"Leadership">> >>},
     department : {undefined},
     location : {undefined}]
    \cup
    [displayName : {<<"ann">>},
     workEmail : {undefined, <<"a@x.com">>},
     skills : {undefinedArr, << <<"Leadership">> >>},
     department : {undefined},
     location : {undefined}]

\* Users that differ in department and location; runSearchFor gives '' for
\* a cell of white space.
FillPool ==
    [displayName : {<<"Ann">>},
     workEmail : {undefined, <<"a@x.com">>},
     skills : {undefinedArr},
     department : {undefined, <<>>, <<"Sales">>, <<"Quality", " ", "Assurance">>},
     location : {undefined, <<"Helsinki">>, <<"Espoo">>}]

\* resultsArrays is two result sets with at most MaxRecs users of Pool
\* between them.
InitCombine(Pool) ==
    /\ pc = "merge"
    /\ configured = FALSE
    /\ query = <<>>
    /\ extraction = "none"
    /\ reply = NoReply
    /\ filters = NoFilters
    /\ searchQueries = <<>>
    /\ requests = <<>>
    /\ settled = <<>>
    /\ \E n \in 0..MaxRecs : \E u \in [1..n -> Pool] : \E k \in 0..n :
          resultsArrays = <<SubSeq(u, 1, k), SubSeq(u, k + 1, n)>>
    /\ outcome = "none"
    /\ result = <<>>

\* combineResults(resultsArrays) is called and returns.
Combine ==
    /\ pc = "merge"
    /\ result' = combineResults(resultsArrays)
    /\ outcome' = "returned"
    /\ pc' = "merged"
    /\ UNCHANGED <<configured, query, extraction, reply, filters,
                   searchQueries, requests, settled, resultsArrays>>

InitMerge == InitCombine(IdentityPool)

InitFill == InitCombine(FillPool)

NextMerge == Combine

SpecMerge == InitMerge /\ [][NextMerge]_vars

SpecFill == InitFill /\ [][NextMerge]_vars

\* ------------------------------------------------------------------------
\* extractFilters on its own: the query and the outcome of the extraction
\* call are drawn from bounded sets
\* ------------------------------------------------------------------------

\* extractFilters(query) has been called; reply is how the extraction call
\* will end when it is made, which it is only with configuration.
InitExtract ==
    /\ pc = "extract"
    /\ \E c \in BOOLEAN :
          /\ configured = c
          /\ reply \in (IF c THEN ExtractionOutcomes ELSE {NoReply})
    /\ query \in Queries
    /\ extraction = "none"
    /\ filters = NoFilters
    /\ searchQueries = <<>>
    /\ requests = <<>>
    /\ settled = <<>>
    /\ resultsArrays = <<>>
    /\ outcome = "none"
    /\ result = <<>>

\* extractFilters returns (lines 417-509).
ExtractFilters ==
    /\ pc = "extract"
    /\ reply # NoReply \/ ~configured
    /\ filters' = IF configured THEN extractFilters(query, reply)
                  ELSE defaultResult(query)
    /\ extraction' = IF configured THEN reply.type ELSE "skipped"
    /\ pc' = "extracted"
    /\ UNCHANGED <<configured, query, reply, searchQueries, requests, settled,
                   resultsArrays, outcome, result>>

NextExtract == ExtractFilters

SpecExtract == InitExtract /\ [][NextExtract]_vars

\* ------------------------------------------------------------------------
\* The batch of searches with the order of completion recorded: the filters
\* are drawn from a bounded set
\* ------------------------------------------------------------------------

\* extractFilters has returned skills of the model, and runSearchFor has
\* been called for each query built from them (lines 384-411).
InitBatch ==
    /\ pc = "search"
    /\ configured = TRUE
    /\ query = <<"Leadership">>
    /\ extraction = "content"
    /\ reply = NoReply
    /\ \E a \in SkillArrays :
          filters = [skills |-> a, department |-> undefined,
                     officeNumber |-> undefined]
    /\ searchQueries = searchQueriesOf(filters, query)
    /\ requests = [i \in 1..Len(searchQueries) |->
                      runSearchForStart(searchQueries[i])]
    /\ settled = <<>>
    /\ resultsArrays = <<>>
    /\ outcome = "none"
    /\ result = <<>>

\* The fetch of request i ends with resp, after those of settled.
FetchEndsInOrder(i, resp) ==
    /\ FetchSettles(i, resp)
    /\ settled' = Append(settled, i)

NextBatch ==
    \/ \E i \in 1..Len(requests), resp \in Responses :
          FetchEndsInOrder(i, resp)
    \/ PromiseAllResolves
    \/ PromiseAllRejects

SpecBatch == InitBatch /\ [][NextBatch]_vars

\* ------------------------------------------------------------------------
\* The row mapping of runSearchFor on its own: the rows of the response are
\* drawn from a bounded set
\* ------------------------------------------------------------------------

\* The keys of the cells, in the order of the cells of a row.
CellKeys ==
    <<"PreferredName", "Title", "AccountName", "WorkEmail", "SPS-Mail",
      "Skills", "PeopleKeywords", "Tags", "RefinableString01", "Department",
      "SPS-Department", "Office", "SPS-Location", "Location", "OfficeNumber">>

\* The value of a cell with key k: the empty string, a blank string, or a
\* string that tells the key it comes from.
CellValue(k, v) ==
    CASE v = "empty" -> <<>>
      [] v = "blank" -> <<" ">>
      [] OTHER -> <<" ", k>>

\* The row with one cell for each key of S, valued as f says.
RowOf(S, f) ==
    LET keys == SelectSeq(CellKeys, LAMBDA k : k \in S)
    IN  [Cells |-> [i \in 1..Len(keys) |->
                      [Key |-> keys[i], Value |-> CellValue(keys[i], f[keys[i]])]]]

\* The responses with the row r: r alone, or r after a row that has no
\* name and before one that has.
RowResponsesOf(r) ==
    {[type |-> "rows", rows |-> <<r>>],
     [type |-> "rows", rows |-> <<RowNoName, r, RowBob>>]}

\* runSearchFor awaits its fetch (line 528); reply is the response it will
\* get, with a row of at most MaxCells cells with distinct keys.
InitRows ==
    /\ pc = "search"
    /\ configured = FALSE
    /\ query = <<"Leadership">>
    /\ extraction = "skipped"
    /\ \E S \in SUBSET {CellKeys[i] : i \in 1..Len(CellKeys)} :
          /\ Cardinality(S) <= MaxCells
          /\ \E f \in [S -> {"empty", "blank", "value"}] :
                reply \in RowResponsesOf(RowOf(S, f))
    /\ filters = defaultResult(query)
    /\ searchQueries = searchQueriesOf(filters, query)
    /\ requests = [i \in 1..Len(searchQueries) |->
                      runSearchForStart(searchQueries[i])]
    /\ settled = <<>>
    /\ resultsArrays = <<>>
    /\ outcome = "none"
    /\ result = <<>>

NextRows ==
    \/ FetchEnds(1, reply)
    \/ PromiseAllResolves

SpecRows == InitRows /\ [][NextRows]_vars

\* ------------------------------------------------------------------------
\* The skills-only classes (lines 16-187 and 204-343): getUserBySkills of
\* lines 35-44 and 223-232 with extractSkills of lines 47-90 and 235-278,
\* which are the same text
\* ------------------------------------------------------------------------

\* message.content of a completion for extractSkills: a JSON array of
\* strings (items), other JSON, or text that JSON.parse rejects.
SkillsContents ==
    {[text |-> ValueText(JsArr(a)), kind |-> "array", items |-> a] :
        a \in SkillArrays}
    \cup
    {[text |-> x,
      kind |-> IF x = <<"[", "]">> THEN "array"
               ELSE IF x = <<"null">> THEN "scalar"
               ELSE IF x = <<"{", "}">> THEN "object" ELSE "invalid",
      items |-> <<>>] : x \in OtherTexts \cup {<<"{", "}">>}}

\* How the extraction call of extractSkills ends.
SkillsOutcomes ==
    {[type |-> "rejects", content |-> [text |-> <<>>, kind |-> "invalid",
                                       items |-> <<>>]],
     [type |-> "nocontent", content |-> [text |-> <<>>, kind |-> "invalid",
                                         items |-> <<>>]]}
    \cup {[type |-> "content", content |-> c] : c \in SkillsContents}

\* Lines 73-86 on the trimmed content: a parsed array is returned as it is
\* once trimmed and filtered, even when nothing is left; text that is not
\* JSON is split, and its pieces are returned when there is one.
skillsOfContent(extracted, parsed, qr) ==
    IF extracted = <<>> THEN <<qr>>
    ELSE IF parsed.kind = "array"
    THEN FilterBoolean(MapTrim(parsed.items))
    ELSE IF parsed.kind = "invalid"
            /\ splitTrimmed(extracted, {"\n", ",", ";", "|"}) # <<>>
    THEN splitTrimmed(extracted, {"\n", ",", ";", "|"})
    ELSE <<qr>>

\* What extractSkills returns once the extraction call has ended as o says
\* (lines 73-90).
extractSkills(qr, o) ==
    IF o.type = "rejects" THEN <<qr>>
    ELSE skillsOfContent(IF o.type = "nocontent" THEN <<>>
                         ELSE trim(o.content.text),
                         o.content, qr)

\* getUserBySkills(query) of a skills-only class has been called; reply is
\* how the extraction call will end when it is made.
InitSkills ==
    /\ pc = "extract"
    /\ \E c \in BOOLEAN :
          /\ configured = c
          /\ reply \in (IF c THEN SkillsOutcomes ELSE {NoReply})
    /\ query \in Queries
    /\ extraction = "none"
    /\ filters = NoFilters
    /\ searchQueries = <<>>
    /\ requests = <<>>
    /\ settled = <<>>
    /\ resultsArrays = <<>>
    /\ outcome = "none"
    /\ result = <<>>

\* Lines 38-42: extractSkills returns (at once without configuration, lines
\* 52-55), and runSearchFor is called with each distinct trimmed skill.
SkillsOnlySearch ==
    /\ pc = "extract"
    /\ filters' = [skills |-> IF configured THEN extractSkills(query, reply)
                              ELSE <<query>>,
                   department |-> undefined,
                   officeNumber |-> undefined]
    /\ extraction' = IF configured THEN reply.type ELSE "skipped"
    /\ searchQueries' = uniqueSkills(filters')
    /\ requests' = [i \in 1..Len(searchQueries') |->
                        runSearchForStart(searchQueries'[i])]
    /\ pc' = "search"
    /\ UNCHANGED <<configured, query, reply, settled, resultsArrays, outcome,
                   result>>

\* Of the steps that follow only the return without any request is kept:
\* Promise.all of no promise resolves at once.
NextSkills ==
    \/ SkillsOnlySearch
    \/ PromiseAllResolves

SpecSkills == InitSkills /\ [][NextSkills]_vars

\* ------------------------------------------------------------------------
\* Properties of the search as a whole (Spec)
\* ------------------------------------------------------------------------

\* The queries have been built and runSearchFor has been called for each.
Built == pc \in {"search", "done"}

\* The fetch of request i has been issued.
Issued(i) == requests[i].state \in {"pending", "failed", "ok"}

HasEmail(u) == Truthy(u.workEmail)

\* The identity of a user: the email without regard to case when there is
\* one, else the name as it is.
IdentityOf(u) ==
    IF HasEmail(u) THEN <<"email", toLowerCase(u.workEmail)>>
    ELSE <<"name", u.displayName>>

\* The skills of a user as a set.
SkillSet(u) ==
    IF u.skills = undefinedArr THEN {}
    ELSE {u.skills[i] : i \in 1..Len(u.skills)}

\* C1: getUserBySkills never throws: whatever the query and whatever the
\* extraction call and the searches do, the call ends with a list of users
\* and never with an error.
C1_NeverThrows == outcome # "threw"

\* C2: a query whose request fails resolves to an empty result set, every
\* other query contributes all of its users to the merged output, and the
\* call succeeds.
C2_FailureIsolation ==
    (pc = "done" /\ \E i \in 1..Len(requests) : requests[i].state = "failed")
    => /\ outcome = "returned"
       /\ \A i \in 1..Len(requests) :
            /\ requests[i].state = "failed" => requests[i].users = <<>>
            /\ requests[i].state = "ok" =>
                 \A j \in 1..Len(requests[i].users) :
                    \E k \in 1..Len(result) :
                       /\ IdentityOf(result[k])
                            = IdentityOf(requests[i].users[j])
                       /\ SkillSet(requests[i].users[j])
                            \subseteq SkillSet(result[k])

\* C3: the list of built queries is never empty, so every search issues at
\* least one request to the search backend.
C3_RequestIssued ==
    Built => /\ Len(searchQueries) >= 1
             /\ \E i \in 1..Len(requests) : Issued(i)

\* The first half of C3 alone: the list of built queries is never empty.
BuiltNeverEmpty == Built => Len(searchQueries) >= 1

\* The distinct skills of the filters that are not empty once trimmed.
TrimmedSkills ==
    {trim(filters.skills[i]) : i \in 1..Len(filters.skills)} \ {<<>>}

\* Where a trimmed skill occurs first in the filters.
FirstAt(s) == Min({i \in 1..Len(filters.skills) : trim(filters.skills[i]) = s})

\* The i-th distinct skill in the order of first occurrence.
SkillAt(i) ==
    CHOOSE s \in TrimmedSkills :
        Cardinality({r \in TrimmedSkills : FirstAt(r) < FirstAt(s)}) = i - 1

\* A value in double quotes when it holds white space, a colon, a
\* parenthesis or a double quote.
Quoted(v) ==
    IF \E i \in 1..Len(v) : v[i] \in {" ", "\n", "\t", ":", "(", ")", "\""}
    THEN <<"\"">> \o v \o <<"\"">>
    ELSE v

\* (Skills:s AND Department:d AND OfficeNumber:o) with the values as they
\* are.
PlainForm(s) ==
    <<"(", "Skills", ":">> \o s
    \o (IF Truthy(filters.department)
        THEN <<" ", "AND", " ", "Department", ":">> \o filters.department
        ELSE <<>>)
    \o (IF Truthy(filters.officeNumber)
        THEN <<" ", "AND", " ", "OfficeNumber", ":">> \o filters.officeNumber
        ELSE <<>>)
    \o <<")">>

\* The same with the values quoted where needed.
QuotedForm(s) ==
    <<"(", "Skills", ":">> \o Quoted(s)
    \o (IF Truthy(filters.department)
        THEN <<" ", "AND", " ", "Department", ":">> \o Quoted(filters.department)
        ELSE <<>>)
    \o (IF Truthy(filters.officeNumber)
        THEN <<" ", "AND", " ", "OfficeNumber", ":">>
             \o Quoted(filters.officeNumber)
        ELSE <<>>)
    \o <<")">>

\* C4 as stated: with a skill in the filters there is exactly one query per
\* distinct trimmed skill, in the order of first occurrence, each of the
\* form (Skills:s) with AND Department:d and AND OfficeNumber:o appended when
\* present.
C4_OnePlainQueryPerSkill ==
    (Built /\ TrimmedSkills # {})
    => /\ Len(searchQueries) = Cardinality(TrimmedSkills)
       /\ \A i \in 1..Len(searchQueries) :
            searchQueries[i] = PlainForm(SkillAt(i))

\* C4 as amended: the same, each value being wrapped in double quotes when
\* it holds white space, a colon, a parenthesis or a double quote; skills
\* [Leadership, Coaching] with department Sales give the two queries
\* (Skills:Leadership AND Department:Sales) and
\* (Skills:Coaching AND Department:Sales).
C4_OneQueryPerSkill ==
    /\ (Built /\ TrimmedSkills # {})
       => /\ Len(searchQueries) = Cardinality(TrimmedSkills)
          /\ \A i \in 1..Len(searchQueries) :
               searchQueries[i] = QuotedForm(SkillAt(i))
    /\ (/\ Built
        /\ filters = [skills |-> << <<"Leadership">>, <<"Coaching">> >>,
                      department |-> <<"Sales">>,
                      officeNumber |-> undefined])
       => searchQueries =
            << <<"(", "Skills", ":", "Leadership", " ", "AND", " ",
                 "Department", ":", "Sales", ")">>,
               <<"(", "Skills", ":", "Coaching", " ", "AND", " ",
                 "Department", ":", "Sales", ")">> >>

\* Two skills of which one needs quotes and one is repeated, with a
\* department that needs quotes and an office, have been built into queries.
C4_Witness ==
    /\ Built
    /\ filters = [skills |-> << <<"Team", " ", "Building">>,
                                <<"Team", " ", "Building">> >>,
                  department |-> <<"Quality", " ", "Assurance">>,
                  officeNumber |-> <<"Helsinki">>]
    /\ Len(searchQueries) = 1

\* The queries that combine the department and the office that are present.
CombinedForms ==
    LET d == <<"Department", ":">> \o Quoted(filters.department)
        o == <<"OfficeNumber", ":">> \o Quoted(filters.officeNumber)
        and == <<" ", "AND", " ">>
    IN  IF Truthy(filters.department) /\ Truthy(filters.officeNumber)
        THEN {<<"(">> \o d \o and \o o \o <<")">>,
              <<"(">> \o o \o and \o d \o <<")">>}
        ELSE IF Truthy(filters.department) THEN {<<"(">> \o d \o <<")">>}
        ELSE {<<"(">> \o o \o <<")">>}

\* C5: without a skill in the filters there is exactly one query: the present
\* ones of department and office combined with AND, or, when both are
\* absent, the raw query searched in Skills.
C5_OneQueryWithoutSkills ==
    (Built /\ TrimmedSkills = {})
    => /\ Len(searchQueries) = 1
       /\ IF Truthy(filters.department) \/ Truthy(filters.officeNumber)
          THEN searchQueries[1] \in CombinedForms
          ELSE searchQueries[1]
                 = <<"(", "Skills", ":">> \o Quoted(query) \o <<")">>

\* Filters without skills but with a department and an office have been
\* built into a query.
C5_Witness ==
    /\ Built
    /\ TrimmedSkills = {}
    /\ Truthy(filters.department)
    /\ Truthy(filters.officeNumber)

HelsinkiQuery == <<"anyone", " ", "in", " ", "Helsinki", " ", "office">>

\* C6 as stated: without configuration the query "anyone in Helsinki
\* office" gives the one query (Skills:anyone in Helsinki office).
C6_PlainPassThrough ==
    (Built /\ ~configured /\ query = HelsinkiQuery)
    => searchQueries = << <<"(", "Skills", ":">> \o HelsinkiQuery \o <<")">> >>

\* C6 as amended: it gives the one query
\* (Skills:"anyone in Helsinki office"), the value being quoted because of
\* its spaces.
C6_QuotedPassThrough ==
    (Built /\ ~configured /\ query = HelsinkiQuery)
    => searchQueries
         = << <<"(", "Skills", ":", "\"">> \o HelsinkiQuery \o <<"\"", ")">> >>

\* The query "anyone in Helsinki office" has been built without
\* configuration.
C6_Witness ==
    /\ Built
    /\ ~configured
    /\ extraction = "skipped"
    /\ query = HelsinkiQuery

\* ------------------------------------------------------------------------
\* Properties of combineResults (SpecMerge, SpecFill)
\* ------------------------------------------------------------------------

\* combineResults has returned.
Merged == pc = "merged"

\* The users of the two result sets in the order of the traversal.
Visited == resultsArrays[1] \o resultsArrays[2]

\* Two users carry the same non-empty email, letter case aside.
SameEmail(u, v) ==
    /\ HasEmail(u)
    /\ HasEmail(v)
    /\ toLowerCase(u.workEmail) = toLowerCase(v.workEmail)

\* C7: all the users with the same non-empty workEmail, compared without
\* regard to case, are one user of the output, whose skills are the union of
\* the skills of them all.
C7_OnePerEmailWithAllSkills ==
    Merged =>
      \A i \in 1..Len(Visited) :
         HasEmail(Visited[i]) =>
            LET same == {k \in 1..Len(result) : SameEmail(result[k], Visited[i])}
                group == {j \in 1..Len(Visited) :
                             SameEmail(Visited[j], Visited[i])}
            IN  /\ Cardinality(same) = 1
                /\ \A k \in same :
                      SkillSet(result[k])
                        = UNION {SkillSet(Visited[j]) : j \in group}

\* Three users with the email a@x.com in both cases and in both result sets,
\* with different skills, have been merged.
C7_Witness ==
    /\ Merged
    /\ Len(resultsArrays[1]) = 1
    /\ Len(resultsArrays[2]) = 2
    /\ resultsArrays[1][1].workEmail = <<"a@x.com">>
    /\ resultsArrays[1][1].skills = << <<"Leadership">> >>
    /\ resultsArrays[2][1].workEmail = <<"A@X.COM">>
    /\ resultsArrays[2][1].skills = undefinedArr
    /\ resultsArrays[2][2].workEmail = <<"A@X.COM">>
    /\ resultsArrays[2][2].skills = << <<"Coaching">>, <<"Leadership">> >>
    /\ Len(result) = 1

\* The names of the users of a sequence that have no email.
NamesWithoutEmail(users) ==
    {users[i].displayName : i \in {j \in 1..Len(users) : ~HasEmail(users[j])}}

\* C8: users without a workEmail are merged exactly when their displayName
\* is the same string: the output has one user without email per distinct
\* name, with the skills of all the users of that name, and names that
\* differ in case only stay two users.
C8_ExactNameWithoutEmail ==
    Merged =>
      /\ NamesWithoutEmail(result) = NamesWithoutEmail(Visited)
      /\ \A n \in NamesWithoutEmail(Visited) :
            LET same == {k \in 1..Len(result) :
                            ~HasEmail(result[k]) /\ result[k].displayName = n}
                group == {j \in 1..Len(Visited) :
                            ~HasEmail(Visited[j]) /\ Visited[j].displayName = n}
            IN  /\ Cardinality(same) = 1
                /\ \A k \in same :
                      SkillSet(result[k])
                        = UNION {SkillSet(Visited[j]) : j \in group}

\* Users without email named Ann, ann and Ann again have been merged into
\* two users.
C8_Witness ==
    /\ Merged
    /\ Len(Visited) = 3
    /\ \A i \in 1..3 : ~HasEmail(Visited[i])
    /\ Visited[1].displayName = <<"Ann">>
    /\ Visited[2].displayName = <<"ann">>
    /\ Visited[3].displayName = <<"Ann">>
    /\ Len(result) = 2

\* The identities of the users of a sequence.
IdentitiesOf(users) == [i \in 1..Len(users) |-> IdentityOf(users[i])]

\* The places of a sequence that hold a value no earlier place holds.
FirstPlaces(s) == {i \in 1..Len(s) : \A j \in 1..(i - 1) : s[j] # s[i]}

\* The values of a sequence in the order of their first occurrence.
InFirstOccurrenceOrder(s) ==
    [n \in 1..Cardinality(FirstPlaces(s)) |->
        s[CHOOSE i \in FirstPlaces(s) :
            Cardinality({j \in FirstPlaces(s) : j < i}) = n - 1]]

\* s is the beginning of t.
IsPrefix(s, t) == Len(s) <= Len(t) /\ s = SubSeq(t, 1, Len(s))

\* C9: the output lists the identities in the order in which the traversal
\* meets each of them first, in the class that merges duplicates and in the
\* one that drops them, and a later occurrence moves no user of the output:
\* the output for the users visited so far is always a beginning of the
\* final one.
C9_OrderStable ==
    Merged =>
      /\ IdentitiesOf(result) = InFirstOccurrenceOrder(IdentitiesOf(Visited))
      /\ IdentitiesOf(combineResultsFirstSeen(resultsArrays))
            = InFirstOccurrenceOrder(IdentitiesOf(Visited))
      /\ \A n \in 0..Len(Visited) :
            IsPrefix(
                IdentitiesOf(combineResults(<<SubSeq(Visited, 1, n)>>)),
                IdentitiesOf(result))

\* A user met first in the first result set occurs again in the second one
\* after a user with another identity.
C9_Witness ==
    /\ Merged
    /\ Len(resultsArrays[1]) = 1
    /\ Len(resultsArrays[2]) = 2
    /\ IdentityOf(Visited[1]) # IdentityOf(Visited[2])
    /\ IdentityOf(Visited[1]) = IdentityOf(Visited[3])
    /\ Len(result) = 2

\* The places of Visited that hold the identity id.
PlacesOf(id) == {j \in 1..Len(Visited) : IdentityOf(Visited[j]) = id}

\* C10: the department and the location of a user of the output are each
\* the first non-empty value of the users with its identity in the order of
\* the traversal (absent when none has one): a later value fills the field
\* only while it is absent and never overwrites a value.
C10_FirstValueWins ==
    Merged =>
      \A k \in 1..Len(result) :
         LET places == PlacesOf(IdentityOf(result[k]))
             depts == {j \in places : Truthy(Visited[j].department)}
             locs == {j \in places : Truthy(Visited[j].location)}
         IN  /\ IF depts # {}
                THEN result[k].department = Visited[Min(depts)].department
                ELSE ~Truthy(result[k].department)
             /\ IF locs # {}
                THEN result[k].location = Visited[Min(locs)].location
                ELSE ~Truthy(result[k].location)

\* Three users of one identity have been merged: the first without a
\* department, the second and the third with different ones, and the first
\* two with different locations.
C10_Witness ==
    /\ Merged
    /\ Len(Visited) = 3
    /\ Len(result) = 1
    /\ ~Truthy(Visited[1].department)
    /\ Visited[2].department = <<"Sales">>
    /\ Visited[3].department = <<"Quality", " ", "Assurance">>
    /\ Visited[1].location = <<"Helsinki">>
    /\ Visited[2].location = <<"Espoo">>

\* ------------------------------------------------------------------------
\* Properties of extractFilters (SpecExtract)
\* ------------------------------------------------------------------------

\* extractFilters has returned.
Extracted == pc = "extracted"

\* The reply is JSON that gives no skill, no department and no office.
NothingUsable ==
    /\ configured
    /\ reply.type = "content"
    /\ reply.content.kind # "invalid"
    /\ LET structured == parsedResult(reply.content.members).result
       IN  /\ structured.skills = <<>>
           /\ ~Truthy(structured.department)
           /\ ~Truthy(structured.officeNumber)

\* C11: when the reply is JSON that yields no non-empty skill, no
\* department and no office, extractFilters returns the skills [query].
C11_DefaultsToRawQuery ==
    (Extracted /\ NothingUsable) => filters.skills = <<query>>

\* The extraction call did not give a reply to work with: there is no
\* configuration, the call failed, or the content is missing or blank.
Degraded ==
    \/ ~configured
    \/ reply.type \in {"rejects", "nocontent"}
    \/ reply.type = "content" /\ trim(reply.content.text) = <<>>

\* The strings of the model: sequences of symbols.
IsString(v) == v = <<>> \/ (DOMAIN v = 1..Len(v) /\ v # undefined)

\* A value of the type extractFilters declares: skills is an array of
\* strings, department and officeNumber are strings when present.
IsExtractedFilters(f) ==
    /\ DOMAIN f = {"skills", "department", "officeNumber"}
    /\ \A i \in 1..Len(f.skills) : IsString(f.skills[i])
    /\ f.department = undefined \/ IsString(f.department)
    /\ f.officeNumber = undefined \/ IsString(f.officeNumber)

\* C12: extractFilters never fails: it returns filters for every query and
\* every outcome of the extraction call, and without configuration, with an
\* empty reply or with a failed call they are exactly { skills: [query] },
\* without department and without officeNumber.
C12_SafeDefault ==
    Extracted =>
      /\ IsExtractedFilters(filters)
      /\ Degraded => filters = [skills |-> <<query>>,
                                department |-> undefined,
                                officeNumber |-> undefined]

\* The extraction call has failed for a query that names an office.
C12_Witness ==
    /\ Extracted
    /\ configured
    /\ reply.type = "rejects"
    /\ query = HelsinkiQuery
    /\ filters.skills = <<HelsinkiQuery>>

\* ------------------------------------------------------------------------
\* Properties of the order of the steps (Spec)
\* ------------------------------------------------------------------------

\* runSearchFor of request i has resolved, with users or with [] after a
\* handled failure.
Settled(i) == requests[i].state \in {"ok", "failed"}

\* C13: the steps are extract, build, execute, merge in that order: no
\* query is built and no request is sent before extractFilters has
\* returned, and combineResults is called only when every runSearchFor of
\* the batch has resolved, on their results.
C13_PhaseOrder ==
    /\ pc \in {"idle", "extract"}
       => /\ extraction = "none"
          /\ searchQueries = <<>>
          /\ requests = <<>>
          /\ resultsArrays = <<>>
          /\ outcome = "none"
    /\ Built => /\ extraction # "none"
                /\ searchQueries = searchQueriesOf(filters, query)
    /\ pc = "search" => resultsArrays = <<>> /\ outcome = "none"
    /\ outcome = "returned"
       => /\ pc = "done"
          /\ \A i \in 1..Len(requests) : Settled(i)
          /\ resultsArrays = [i \in 1..Len(requests) |-> requests[i].users]
          /\ result = combineResults(resultsArrays)

\* A search with a reply of the model and two requests, of which the first
\* failed, has returned.
C13_Witness ==
    /\ outcome = "returned"
    /\ extraction = "content"
    /\ Len(requests) = 2
    /\ requests[1].state = "failed"
    /\ requests[2].state = "ok"
    /\ Len(result) > 0

\* A request that is still awaited can get its response next, whether the
\* others have answered or not (unless a sibling threw and the rejection of
\* Promise.all is handled first).
CanAnswerNext(i) ==
    (requests[i].state = "pending" /\ ~(pc = "search" /\ Rejected))
    => ENABLED (\E resp \in Responses : FetchEnds(i, resp))

\* C14: the requests of a search are sent together: once the queries are
\* built the request of every query has been sent, before any response is
\* awaited, and a request that is slow, fails or never answers keeps no
\* other request from being sent or from completing.
C14_AllSentTogether ==
    Built =>
      /\ Len(requests) = Len(searchQueries)
      /\ \A i \in 1..Len(requests) : Issued(i) /\ CanAnswerNext(i)

\* What holds of C14: runSearchFor has been called for every query, and
\* every request has been sent but those of the queries for which
\* encodeURIComponent threw.
SentTogetherUnlessThrown ==
    Built =>
      /\ Len(requests) = Len(searchQueries)
      /\ \A i \in 1..Len(requests) :
            /\ requests[i].state \in {"pending", "ok", "failed", "threw"}
            /\ requests[i].state = "threw"
                  <=> URIMalformed(safeQueryOf(searchQueries[i]))
            /\ CanAnswerNext(i)

\* The second of two requests has got its response while the first one is
\* still awaited.
SecondAnswersFirst ==
    /\ pc = "search"
    /\ Len(requests) = 2
    /\ requests[1].state = "pending"
    /\ requests[2].state = "ok"
    /\ Len(requests[2].users) > 0

\* Every request is sent at most once: what has been built stays as it is,
\* the extraction call does not end twice, and a request that has got its
\* response (or threw) is not awaited again.
NoRetry ==
    [][/\ extraction # "none" => extraction' = extraction
       /\ Built => /\ searchQueries' = searchQueries
                   /\ filters' = filters
                   /\ Len(requests') = Len(requests)
                   /\ \A i \in 1..Len(requests) :
                         requests[i].state # "pending"
                           => requests'[i] = requests[i]]_vars

\* C15: nothing is retried: the extraction call is made at most once, and
\* for every built query exactly one request is sent to the search backend,
\* whatever the outcomes; a failed request resolves to [] and is not sent
\* again.
C15_ExactlyOneRequest ==
    Built =>
      /\ extraction \in {"skipped", "rejects", "nocontent", "content"}
      /\ \A i \in 1..Len(searchQueries) :
            /\ i \in DOMAIN requests
            /\ Issued(i)
            /\ requests[i].state = "failed" => requests[i].users = <<>>

\* ------------------------------------------------------------------------
\* Properties of the skills-only classes (SpecSkills)
\* ------------------------------------------------------------------------

\* C16: the search never dead-ends: whatever the query and however the
\* extraction call ends, something to search for is produced, at least one
\* request is sent to the search backend, and the call does not return
\* without having sent one.
C16_NeverDeadEnds ==
    /\ Built => /\ Len(searchQueries) >= 1
                /\ \E i \in 1..Len(requests) : Issued(i)
    /\ outcome = "returned" => Len(requests) >= 1

\* ------------------------------------------------------------------------
\* Properties of the row mapping (SpecRows)
\* ------------------------------------------------------------------------

\* runSearchFor has mapped the rows of the response.
Mapped == reply.type = "rows" /\ requests[1].state = "ok"

\* The row of the response that is drawn from the bounded set.
TheRow == IF Len(reply.rows) = 1 THEN reply.rows[1] ELSE reply.rows[2]

\* The aliases of each field, in order.
NameAliases == <<"PreferredName", "Title", "AccountName">>

EmailAliases == <<"WorkEmail", "AccountName", "SPS-Mail">>

SkillsAliases == <<"Skills", "PeopleKeywords", "Tags", "RefinableString01">>

DepartmentAliases == <<"Department", "SPS-Department", "Office">>

LocationAliases == <<"Office", "SPS-Location", "Location", "OfficeNumber">>

\* The value of the cell of a row with key k, empty when there is none.
ValueAt(row, k) ==
    IF \E i \in 1..Len(row.Cells) : row.Cells[i].Key = k
    THEN row.Cells[CHOOSE i \in 1..Len(row.Cells) : row.Cells[i].Key = k].Value
    ELSE <<>>

\* The value of the first alias that has a non-empty value in the row, trimmed;
\* undefined when no alias has one.
FirstNonEmpty(row, aliases) ==
    LET has == {j \in 1..Len(aliases) : ValueAt(row, aliases[j]) # <<>>}
    IN  IF has = {} THEN undefined
        ELSE trim(ValueAt(row, aliases[Min(has)]))

\* The display name a row resolves to, empty when no alias has a value.
ResolvedName(row) ==
    IF FirstNonEmpty(row, NameAliases) = undefined THEN <<>>
    ELSE FirstNonEmpty(row, NameAliases)

\* C17: each field of a row is resolved by the first match over its
\* aliases in order: it takes the (trimmed) value of the first alias whose
\* cell has a non-empty value, a later alias counts only when every earlier
\* one is missing or empty, and the field is absent when no alias has a
\* non-empty value. The skills are that value as a list, absent when it is
\* blank.
C17_FirstAliasWins ==
    (Mapped /\ ResolvedName(TheRow) # <<>>) =>
      LET u == requests[1].users[1]
          rawSkills == FirstNonEmpty(TheRow, SkillsAliases)
      IN  /\ u.displayName = FirstNonEmpty(TheRow, NameAliases)
          /\ u.workEmail = FirstNonEmpty(TheRow, EmailAliases)
          /\ u.department = FirstNonEmpty(TheRow, DepartmentAliases)
          /\ u.location = FirstNonEmpty(TheRow, LocationAliases)
          /\ u.skills = IF rawSkills \in {undefined, <<>>} THEN undefinedArr
                        ELSE <<rawSkills>>

\* A row with a name, an empty Department and an Office has been mapped:
\* both the department and the location are the Office.
C17_Witness ==
    /\ Mapped
    /\ Len(TheRow.Cells) = 3
    /\ ValueAt(TheRow, "PreferredName") = <<" ", "PreferredName">>
    /\ TheRow.Cells[2] = [Key |-> "Department", Value |-> <<>>]
    /\ ValueAt(TheRow, "Office") = <<" ", "Office">>
    /\ requests[1].users[1].department = <<"Office">>
    /\ requests[1].users[1].location = <<"Office">>

\* The rows of the response whose resolved name is not empty.
NamedRows == SelectSeq(reply.rows, LAMBDA r : ResolvedName(r) # <<>>)

\* C18: every user of every result set, and so of the merged output, has a
\* non-empty displayName: a row whose resolved, trimmed name is empty is
\* dropped, and every row with a non-empty resolved name is kept.
C18_NamedOnly ==
    /\ \A i \in 1..Len(requests) : \A j \in 1..Len(requests[i].users) :
          requests[i].users[j].displayName # <<>>
    /\ \A i \in 1..Len(resultsArrays) : \A j \in 1..Len(resultsArrays[i]) :
          resultsArrays[i][j].displayName # <<>>
    /\ \A k \in 1..Len(result) : result[k].displayName # <<>>
    /\ Mapped =>
          /\ Len(requests[1].users) = Len(NamedRows)
          /\ \A j \in 1..Len(NamedRows) :
                requests[1].users[j].displayName = ResolvedName(NamedRows[j])

\* A response of three rows, of which the first has a blank name and the
\* second none that is not empty, has been mapped and merged: only the
\* third is in the output.
C18_Witness ==
    /\ Mapped
    /\ pc = "done"
    /\ Len(reply.rows) = 3
    /\ ValueAt(TheRow, "PreferredName") = <<" ">>
    /\ ValueAt(TheRow, "Title") = <<" ", "Title">>
    /\ Len(result) = 1
    /\ result[1].displayName = <<"Bob">>

\* ------------------------------------------------------------------------
\* Properties of the batch (SpecBatch)
\* ------------------------------------------------------------------------

\* C19: the result does not depend on the order in which the requests
\* complete: whatever that order, the result sets are handed to
\* combineResults in the order of the queries, each being what runSearchFor
\* made of the response to its own query, so the output is the same list
\* for the same queries and the same responses.
C19_OrderIndependent ==
    outcome = "returned" =>
      /\ Len(settled) = Len(searchQueries)
      /\ \A i \in 1..Len(searchQueries) : \E k \in 1..Len(settled) :
            settled[k] = i
      /\ Len(resultsArrays) = Len(searchQueries)
      /\ \A i \in 1..Len(searchQueries) :
            resultsArrays[i] = requests[i].users
      /\ result
           = combineResults([i \in 1..Len(searchQueries) |->
                                requests[i].users])

\* The second request completed before the first, each with users, among
\* them one that both have under different spellings of the email, and the
\* search has returned.
C19_Witness ==
    /\ outcome = "returned"
    /\ settled = <<2, 1>>
    /\ Len(requests[1].users) = 2
    /\ Len(requests[2].users) = 2
    /\ requests[1].users[1].workEmail = <<"a@x.com">>
    /\ requests[2].users[2].workEmail = <<"A@X.COM">>
    /\ result[1].workEmail = <<"a@x.com">>

====
